---- MODULE Spec2Model ----
(***************************************************************************)
(* Model of the MAGI review protocol client (src/src/tools/code_review.rs):*)
(* CodeReviewTool::call and MAGISystemState::get_final_decision.           *)
(*                                                                         *)
(* Rust strings are modelled as sequences of chunks, so that push_str is   *)
(* sequence concatenation and contains("POSITIVE") is a search for the two *)
(* adjacent chunks "POSI","TIVE": a match can span two streamed fragments. *)
(***************************************************************************)
EXTENDS Integers, Sequences, FiniteSets, TLC

(* ---------------------------- bounds ----------------------------------- *)

\* number of inbound websocket frames one session consumes in the model
MaxMsgs == 3

(* ---------------------------- constants -------------------------------- *)

\* AGENT_IDS: (name, routing id)
AGENT_IDS ==
    << <<"melchior",  "d37c1cc8-bcc4-4b73-9f49-a93a30971f2c">>,
       <<"balthasar", "6634d0ec-d700-4a92-9066-4960a0f11927">>,
       <<"casper",    "89cbe912-25d0-47b0-97da-b25622bfac0d">> >>

\* the three fields of MAGISystemState
AgentNames == {"melchior", "balthasar", "casper"}

\* let request_id = Uuid::new_v4().to_string()
request_id == "req-1"

\* Option<MAGIDecision>
MAGIDecision == {"POSITIVE", "NEGATIVE"}
None == "None"

(* ---------------------------- strings ---------------------------------- *)

POSITIVE_TEXT == <<"POSI", "TIVE">>

\* str::contains("POSITIVE")
ContainsPositive(s) ==
    \E i \in 1..(Len(s) - 1) : s[i] = "POSI" /\ s[i + 1] = "TIVE"

\* texts carried by inbound messages
Texts == { POSITIVE_TEXT, <<"POSI">>, <<"TIVE">> }

ErrorText == <<"boom">>

(* ---------------------------- session state ---------------------------- *)

VARIABLES
    pc,               \* position of call: "connect", "send", "recv", "done"
    outcome,          \* "none", "Ok", "ConnectionError", "WebSocketError"
    magi_state,       \* MAGISystemState
    completed_agents, \* HashSet of agent names
    reviews,          \* Vec<String>; on "Ok" the reviews of the output
    error_messages,   \* Vec<String>
    final_result,     \* String; on "Ok" the result of the output
    passed,           \* bool; on "Ok" the passed of the output
    nrecv,            \* frames consumed so far
    branch,           \* the path the last step of call took
    received          \* history: per reviewer, the frames consumed so far
                      \* that carry the session's request id and its agent id

\* the state of one CodeReviewTool::call
reviewVars == << pc, outcome, magi_state, completed_agents, reviews,
                 error_messages, final_result, passed, nrecv, branch,
                 received >>

\* main and MultiTurnAgent::multi_turn_prompt (src/src/main.rs)
VARIABLES
    opc,              \* position: "idle", "generating", "reviewing",
                      \* "returned"
    chat_history,     \* MultiTurnAgent::chat_history
    current_prompt,   \* let mut current_prompt
    final_text,       \* let mut final_text: Option<String>
    code_approved,    \* let mut code_approved
    tool_call,        \* the ToolCall whose tools.call is awaited
    result,           \* what multi_turn_prompt returned
    calls,            \* history: the provider and review invocations of the
                      \* current request, in order
    nreq              \* top-level requests read so far

orchVars == << opc, chat_history, current_prompt, final_text, code_approved,
               tool_call, result, calls, nreq >>

vars == << reviewVars, orchVars >>

loopVars == << magi_state, completed_agents, reviews, error_messages,
               final_result, passed >>

\* MAGISystemState::default()
DefaultState ==
    [a \in AgentNames |-> [messages |-> <<>>, decision |-> None, content |-> <<>>]]

Agents(st) == << st["melchior"], st["balthasar"], st["casper"] >>

\* get_final_decision with the majority threshold raised to unanimity
get_final_decision_Unanimous(st) ==
    LET positive_count ==
            Cardinality({i \in 1..3 : Agents(st)[i].decision = "POSITIVE"})
    IN  IF positive_count >= 3 THEN "POSITIVE"
        ELSE IF \A i \in 1..3 : Agents(st)[i].decision # None THEN "NEGATIVE"
        ELSE None

\* get_final_decision with the majority threshold lowered to one vote
get_final_decision_AnyPositive(st) ==
    LET positive_count ==
            Cardinality({i \in 1..3 : Agents(st)[i].decision = "POSITIVE"})
    IN  IF positive_count >= 1 THEN "POSITIVE"
        ELSE IF \A i \in 1..3 : Agents(st)[i].decision # None THEN "NEGATIVE"
        ELSE None

\* get_final_decision without the all-decisions-set test
get_final_decision_NoQuorum(st) ==
    LET positive_count ==
            Cardinality({i \in 1..3 : Agents(st)[i].decision = "POSITIVE"})
    IN  IF positive_count >= 2 THEN "POSITIVE" ELSE "NEGATIVE"

\* get_final_decision that stays pending unless two reviewers agree on
\* POSITIVE or all three on NEGATIVE
get_final_decision_PendingOnSplit(st) ==
    LET positive_count ==
            Cardinality({i \in 1..3 : Agents(st)[i].decision = "POSITIVE"})
    IN  IF positive_count >= 2 THEN "POSITIVE"
        ELSE IF \A i \in 1..3 : Agents(st)[i].decision = "NEGATIVE"
             THEN "NEGATIVE"
        ELSE None

\* MAGISystemState::get_final_decision
get_final_decision(st) ==
    LET positive_count ==
            Cardinality({i \in 1..3 : Agents(st)[i].decision = "POSITIVE"})
    IN  IF positive_count >= 2 THEN "POSITIVE"
        ELSE IF \A i \in 1..3 : Agents(st)[i].decision # None THEN "NEGATIVE"
        ELSE None

(* ---------------------------- inbound frames --------------------------- *)

\* A websocket frame as the three serde parsers see it: which JSON fields
\* are present and of which JSON type.  "-" stands for an absent field.
Absent == "-"

\* JSON value of a field that a parser reads as String
NoField   == [kind |-> "absent", text |-> <<>>]
NullField == [kind |-> "null",   text |-> <<>>]
Str(t)    == [kind |-> "str",    text |-> t]

Frame(fr, ty, sid, st, rid, aid, c, e, ts) ==
    [frame |-> fr, type |-> ty, session_id |-> sid, status |-> st,
     request_id |-> rid, agent_id |-> aid, content |-> c, error |-> e,
     timestamp |-> ts]

\* {type, agent_id, request_id, content, status, timestamp: number}
Terminal(aid, rid, st, t) ==
    Frame("text", "agent_response", Absent, st, rid, aid, Str(t), NoField, "num")

\* {type, session_id, status, request_id, agent_id, content?, timestamp: string}
Envelope(aid, rid, st, c) ==
    Frame("text", "agent_response", "sess", st, rid, aid, c, NoField, "str")

\* {type, session_id, status, request_id, agent_id, error, timestamp: string}
ErrorEnvelope(aid, rid) ==
    Frame("text", "agent_error", "sess", "error", rid, aid, NoField,
          Str(ErrorText), "str")

\* an error envelope that also carries "content": null
ErrorEnvelopeNullContent(aid, rid) ==
    [ErrorEnvelope(aid, rid) EXCEPT !.content = NullField]

\* {"type": "connection_established", "session_id": ...}
ConnectionEstablished ==
    Frame("text", "connection_established", "sess", Absent, Absent, Absent,
          NoField, NoField, Absent)

\* Message::Binary / Ping / Pong / Close
NonText ==
    Frame("binary", Absent, Absent, Absent, Absent, Absent, NoField, NoField,
          Absent)

Melchior  == AGENT_IDS[1][2]
Balthasar == AGENT_IDS[2][2]
Casper    == AGENT_IDS[3][2]
KnownIds  == {AGENT_IDS[i][2] : i \in 1..3}
UnknownId == "00000000-0000-0000-0000-000000000000"
OtherRequest == "req-0"

\* the frames the gateway sends in the model
Msgs ==
    UNION { { Terminal(a, request_id, "completed", POSITIVE_TEXT),
              Terminal(a, request_id, "completed", <<"TIVE">>),
              Terminal(a, request_id, "streaming", <<"POSI">>),
              Envelope(a, request_id, "streaming", Str(POSITIVE_TEXT)),
              Envelope(a, request_id, "streaming", Str(<<"POSI">>)),
              Envelope(a, request_id, "streaming", Str(<<"TIVE">>)),
              Envelope(a, request_id, "completed", NoField),
              Envelope(a, request_id, "completed", Str(POSITIVE_TEXT)),
              ErrorEnvelope(a, request_id),
              ErrorEnvelopeNullContent(a, request_id) } : a \in KnownIds }
    \cup { Terminal(UnknownId, request_id, "completed", POSITIVE_TEXT),
           Envelope(UnknownId, request_id, "completed", NoField),
           ErrorEnvelopeNullContent(UnknownId, request_id),
           Terminal(Casper, OtherRequest, "completed", POSITIVE_TEXT),
           Envelope(Casper, OtherRequest, "streaming", Str(POSITIVE_TEXT)),
           Envelope(Casper, OtherRequest, "completed", NoField),
           ErrorEnvelopeNullContent(Casper, OtherRequest),
           ConnectionEstablished,
           NonText }

(* ---------------------------- serde parsers ---------------------------- *)

\* serde_json::from_str::<AgentResponse>: type, agent_id, request_id,
\* content, status are required strings, timestamp a required f64;
\* unknown fields are ignored
ParsesAgentResponse(m) ==
    /\ m.type # Absent /\ m.agent_id # Absent /\ m.request_id # Absent
    /\ m.status # Absent
    /\ m.content.kind = "str"
    /\ m.timestamp = "num"

\* serde_json::from_str::<MessageReceived>: content is #[serde(default)],
\* so it may be absent but, when present, must be a string
ParsesMessageReceived(m) ==
    /\ m.type # Absent /\ m.session_id # Absent /\ m.status # Absent
    /\ m.request_id # Absent /\ m.agent_id # Absent
    /\ m.content.kind \in {"absent", "str"}
    /\ m.timestamp = "str"

\* serde_json::from_str::<AgentErrorResponse>
ParsesAgentErrorResponse(m) ==
    /\ m.type # Absent /\ m.session_id # Absent /\ m.status # Absent
    /\ m.request_id # Absent /\ m.agent_id # Absent
    /\ m.error.kind = "str"
    /\ m.timestamp = "str"

(* ---------------------------- helpers of call -------------------------- *)

\* the request id test left out
SameRequest_Always(rid) == TRUE

\* response.request_id != request_id  =>  continue
SameRequest(rid) == rid = request_id

\* AGENT_IDS.iter().find(|(_, id)| *id == agent_id).map(name).unwrap_or("unknown")
AgentName(aid) ==
    IF \E i \in 1..3 : AGENT_IDS[i][2] = aid
    THEN AGENT_IDS[CHOOSE i \in 1..3 : AGENT_IDS[i][2] = aid][1]
    ELSE "unknown"

\* Extract decision from content
ExtractDecision(text) ==
    IF ContainsPositive(text) THEN "POSITIVE" ELSE "NEGATIVE"

\* format!("Reviewer {}: {}", agent_name, content)
ReviewLine(name, text) == <<"Reviewer ", name, ": ">> \o text

\* format!("Reviewer {} error: {}", agent_name, error)
ErrorLine(name, text) == <<"Reviewer ", name, " error: ">> \o text

\* format!("ERROR: {}", error)
ErrorContent(text) == <<"ERROR: ">> \o text

\* the three reviews.push(format!("Melchior: {}", ...)) lines
ContentDumps(st) ==
    << <<"Melchior: ">>  \o st["melchior"].content,
       <<"Balthasar: ">> \o st["balthasar"].content,
       <<"Casper: ">>    \o st["casper"].content >>

\* the code after the receive loop: reviews.extend(error_messages), dumps
FinalReviews(rv, errs, st) == rv \o errs \o ContentDumps(st)

(* ---------------------------- conversation turns ----------------------- *)

\* top-level requests main reads in the model
MaxRequests == 2

\* provider invocations of one request in the model
MaxTurns == 3

\* Option<String>::None
NoText == "<none>"

\* completion::Message; passed is "true"/"false" on a tool result that
\* carries the serialised CodeReviewOutput, "-" elsewhere
Turn(role, kind, text, p) ==
    [role |-> role, kind |-> kind, text |-> text, passed |-> p]

NoTurn == Turn("-", "-", NoText, "-")

\* Message::User { UserContent::Text }
UserText(t) == Turn("user", "text", t, "-")

\* Message::Assistant { AssistantContent::Text }
AssistantText(t) == Turn("assistant", "text", t, "-")

\* Message::Assistant { AssistantContent::ToolCall }, arguments.code = c
AssistantToolCall(c) == Turn("assistant", "tool_call", c, "-")

\* Message::User { UserContent::ToolResult }: the CodeReviewOutput as
\* text, with its code and passed fields
ToolResult(c, p) == Turn("user", "tool_result", c, IF p THEN "true" ELSE "false")

\* format!("Please improve the code based on the last review feedback")
ImprovePrompt ==
    UserText("Please improve the code based on the last review feedback")

\* the lines main reads from stdin, by request number
Prompts == << "request 1", "request 2", "request 3" >>

\* AssistantContent items of a provider response
TextItem(t) == [kind |-> "text", text |-> t]
ToolItem(c) == [kind |-> "tool", text |-> c]
NoItem == [kind |-> "-", text |-> NoText]

\* resp.choice values the provider returns in the model
Responses ==
    { << TextItem("text 1") >>,
      << ToolItem("code 1") >>,
      << ToolItem("code 2") >>,
      << TextItem("text 1"), ToolItem("code 1") >>,
      << TextItem("text 1"), TextItem("text 2") >> }

\* Result<String, PromptError>
NoResult == [kind |-> "-", text |-> NoText]
OkResult(t) == [kind |-> "Ok", text |-> t]
ErrResult(e) == [kind |-> "Err", text |-> e]

(* ---------------------------- call: set-up ----------------------------- *)

Init ==
    /\ pc = "connect"
    /\ outcome = "none"
    /\ magi_state = DefaultState
    /\ completed_agents = {}
    /\ reviews = <<>>
    /\ error_messages = <<>>
    /\ final_result = <<>>
    /\ passed = FALSE
    /\ nrecv = 0
    /\ branch = "start"
    /\ received = [a \in AgentNames |-> <<>>]
    /\ opc = "idle"
    /\ chat_history = <<>>
    /\ current_prompt = NoTurn
    /\ final_text = NoText
    /\ code_approved = FALSE
    /\ tool_call = NoItem
    /\ result = NoResult
    /\ calls = <<>>
    /\ nreq = 0

\* Url::parse and connect_async succeed
Connect ==
    /\ pc = "connect"
    /\ pc' = "send"
    /\ branch' = "connected"
    /\ UNCHANGED << outcome, nrecv, received >>
    /\ UNCHANGED loopVars
    /\ UNCHANGED orchVars

\* Url::parse or connect_async fails: ConnectionError
ConnectFails ==
    /\ pc = "connect"
    /\ pc' = "done"
    /\ outcome' = "ConnectionError"
    /\ branch' = "connect_failed"
    /\ UNCHANGED << nrecv, received >>
    /\ UNCHANGED loopVars
    /\ UNCHANGED orchVars

\* write.send succeeds; the loop state is initialised
SendRequest ==
    /\ pc = "send"
    /\ pc' = "recv"
    /\ branch' = "sent"
    /\ reviews' = <<>>
    /\ final_result' = <<>>
    /\ passed' = FALSE
    /\ magi_state' = DefaultState
    /\ completed_agents' = {}
    /\ error_messages' = <<>>
    /\ UNCHANGED << outcome, nrecv, received >>
    /\ UNCHANGED orchVars

\* write.send fails: WebSocketError
SendFails ==
    /\ pc = "send"
    /\ pc' = "done"
    /\ outcome' = "WebSocketError"
    /\ branch' = "send_failed"
    /\ UNCHANGED << nrecv, received >>
    /\ UNCHANGED loopVars
    /\ UNCHANGED orchVars

(* ---------------------------- call: receive loop ----------------------- *)

\* the iteration ends without touching the loop state
Skip(b) ==
    /\ branch' = b
    /\ UNCHANGED << pc, outcome >>
    /\ UNCHANGED loopVars

\* the iteration ends and the loop goes on
Continue(b, st, done, rv, errs) ==
    /\ branch' = b
    /\ magi_state' = st
    /\ completed_agents' = done
    /\ reviews' = rv
    /\ error_messages' = errs
    /\ UNCHANGED << pc, outcome, final_result, passed >>

\* the outcome is computed but the loop is not left
ReturnOk_NoExit(b, st, done, rv, errs, res, ok) ==
    /\ branch' = b
    /\ magi_state' = st
    /\ completed_agents' = done
    /\ reviews' = rv
    /\ error_messages' = errs
    /\ final_result' = res
    /\ passed' = ok
    /\ UNCHANGED << pc, outcome >>

\* return Ok(CodeReviewOutput {reviews, result, passed, magi_state, code})
ReturnOk(b, st, done, rv, errs, res, ok) ==
    /\ branch' = b
    /\ magi_state' = st
    /\ completed_agents' = done
    /\ reviews' = rv
    /\ error_messages' = errs
    /\ final_result' = res
    /\ passed' = ok
    /\ pc' = "done"
    /\ outcome' = "Ok"

\* break, then the code after the loop
Break(b, st, done, res, ok) ==
    ReturnOk(b, st, done, FinalReviews(reviews, error_messages, st),
             error_messages, res, ok)

\* the AgentResponse branch deciding on the accumulated content
OnAgentResponse_Cumulative(m) ==
    IF ~SameRequest(m.request_id) THEN Skip("a_other_request")
    ELSE
    LET agent_name == AgentName(m.agent_id)
        rv == Append(reviews, ReviewLine(agent_name, m.content.text))
    IN  IF agent_name \notin AgentNames
        THEN Continue("a_unknown_agent", magi_state, completed_agents, rv,
                      error_messages)
        ELSE
        LET st1 == [magi_state EXCEPT
                      ![agent_name].messages = Append(@, m.content.text),
                      ![agent_name].content = @ \o m.content.text]
        IN  IF m.status # "completed"
            THEN Continue("a_fragment", st1, completed_agents, rv,
                          error_messages)
            ELSE
            LET st2 == [st1 EXCEPT ![agent_name].decision =
                                        ExtractDecision(st1[agent_name].content)]
                done == completed_agents \cup {agent_name}
                decision == get_final_decision(st2)
            IN  IF Cardinality(done) >= 3 /\ decision # None
                THEN ReturnOk("a_quorum", st2, done, rv, error_messages,
                              IF decision = "POSITIVE"
                              THEN POSITIVE_TEXT ELSE <<"NEGATIVE">>,
                              decision = "POSITIVE")
                ELSE Continue("a_completed", st2, done, rv, error_messages)

\* the AgentResponse branch
OnAgentResponse(m) ==
    IF ~SameRequest(m.request_id) THEN Skip("a_other_request")
    ELSE
    LET agent_name == AgentName(m.agent_id)
        rv == Append(reviews, ReviewLine(agent_name, m.content.text))
    IN  IF agent_name \notin AgentNames
        THEN Continue("a_unknown_agent", magi_state, completed_agents, rv,
                      error_messages)
        ELSE
        LET st1 == [magi_state EXCEPT
                      ![agent_name].messages = Append(@, m.content.text),
                      ![agent_name].content = @ \o m.content.text]
        IN  IF m.status # "completed"
            THEN Continue("a_fragment", st1, completed_agents, rv,
                          error_messages)
            ELSE
            LET st2 == [st1 EXCEPT ![agent_name].decision =
                                        ExtractDecision(m.content.text)]
                done == completed_agents \cup {agent_name}
                decision == get_final_decision(st2)
            IN  IF Cardinality(done) >= 3 /\ decision # None
                THEN ReturnOk("a_quorum", st2, done, rv, error_messages,
                              IF decision = "POSITIVE"
                              THEN POSITIVE_TEXT ELSE <<"NEGATIVE">>,
                              decision = "POSITIVE")
                ELSE Continue("a_completed", st2, done, rv, error_messages)

\* the completed set after a completion of agent_name when completions are
\* counted per message: a repeated completion counts as one more reviewer
InsertCounting(agent_name) ==
    IF agent_name \in completed_agents /\ completed_agents # AgentNames
    THEN completed_agents \cup
            {CHOOSE b \in AgentNames : b \notin completed_agents}
    ELSE completed_agents \cup {agent_name}

\* the MessageReceived branch with completions counted per message
OnMessageReceived_CountsDuplicates(m) ==
    IF m.type # "agent_response" THEN Skip("b_other_type")
    ELSE IF ~SameRequest(m.request_id) THEN Skip("b_other_request")
    ELSE
    LET agent_name == AgentName(m.agent_id)
    IN  IF agent_name \notin AgentNames THEN Skip("b_unknown_agent")
        ELSE IF m.status = "streaming"
        THEN Continue("b_streaming",
                      [magi_state EXCEPT
                         ![agent_name].content = @ \o m.content.text,
                         ![agent_name].messages = Append(@, m.content.text)],
                      completed_agents, reviews, error_messages)
        ELSE IF m.status = "completed"
        THEN
            LET done == InsertCounting(agent_name)
                st1 == [magi_state EXCEPT ![agent_name].decision =
                            ExtractDecision(magi_state[agent_name].content)]
                decision == get_final_decision(st1)
            IN  IF Cardinality(done) >= 3 /\ decision # None
                THEN Break("b_quorum", st1, done,
                           IF decision = "POSITIVE"
                           THEN POSITIVE_TEXT ELSE <<"NEGATIVE">>,
                           decision = "POSITIVE")
                ELSE Continue("b_completed", st1, done, reviews,
                              error_messages)
        ELSE Skip("b_other_status")

\* the MessageReceived branch
OnMessageReceived(m) ==
    IF m.type # "agent_response" THEN Skip("b_other_type")
    ELSE IF ~SameRequest(m.request_id) THEN Skip("b_other_request")
    ELSE
    LET agent_name == AgentName(m.agent_id)
    IN  IF agent_name \notin AgentNames THEN Skip("b_unknown_agent")
        ELSE IF m.status = "streaming"
        THEN Continue("b_streaming",
                      [magi_state EXCEPT
                         ![agent_name].content = @ \o m.content.text,
                         ![agent_name].messages = Append(@, m.content.text)],
                      completed_agents, reviews, error_messages)
        ELSE IF m.status = "completed"
        THEN
            LET done == completed_agents \cup {agent_name}
                st1 == [magi_state EXCEPT ![agent_name].decision =
                            ExtractDecision(magi_state[agent_name].content)]
                decision == get_final_decision(st1)
            IN  IF Cardinality(done) >= 3 /\ decision # None
                THEN Break("b_quorum", st1, done,
                           IF decision = "POSITIVE"
                           THEN POSITIVE_TEXT ELSE <<"NEGATIVE">>,
                           decision = "POSITIVE")
                ELSE Continue("b_completed", st1, done, reviews,
                              error_messages)
        ELSE Skip("b_other_status")

\* the AgentErrorResponse branch ending the session at the first error of a
\* known reviewer
OnAgentErrorResponse_Abort(m) ==
    IF ~SameRequest(m.request_id) THEN Skip("c_other_request")
    ELSE
    LET agent_name == AgentName(m.agent_id)
        errs == Append(error_messages, ErrorLine(agent_name, m.error.text))
    IN  IF agent_name \notin AgentNames
        THEN Continue("c_unknown_agent", magi_state, completed_agents,
                      reviews, errs)
        ELSE
        LET st1 == [magi_state EXCEPT
                      ![agent_name].messages =
                          Append(@, ErrorContent(m.error.text)),
                      ![agent_name].decision = "NEGATIVE"]
            done == completed_agents \cup {agent_name}
        IN  ReturnOk("c_quorum", st1, done,
                     FinalReviews(reviews, errs, st1), errs,
                     <<"NEGATIVE">>, FALSE)

\* the AgentErrorResponse branch
OnAgentErrorResponse(m) ==
    IF ~SameRequest(m.request_id) THEN Skip("c_other_request")
    ELSE
    LET agent_name == AgentName(m.agent_id)
        errs == Append(error_messages, ErrorLine(agent_name, m.error.text))
    IN  IF agent_name \notin AgentNames
        THEN Continue("c_unknown_agent", magi_state, completed_agents,
                      reviews, errs)
        ELSE
        LET st1 == [magi_state EXCEPT
                      ![agent_name].messages =
                          Append(@, ErrorContent(m.error.text)),
                      ![agent_name].decision = "NEGATIVE"]
            done == completed_agents \cup {agent_name}
        IN  IF Cardinality(done) >= 3
            THEN ReturnOk("c_quorum", st1, done,
                          FinalReviews(reviews, errs, st1), errs,
                          <<"NEGATIVE">>, FALSE)
            ELSE Continue("c_error", st1, done, reviews, errs)

\* the history after frame m
Record(m) ==
    IF m.frame = "text" /\ m.request_id = request_id
                        /\ AgentName(m.agent_id) \in AgentNames
    THEN [received EXCEPT ![AgentName(m.agent_id)] = Append(@, m)]
    ELSE received

\* one iteration of `while let Some(msg) = read.next().await` with Ok(msg)
Receive(m) ==
    /\ pc = "recv"
    /\ nrecv < MaxMsgs
    /\ nrecv' = nrecv + 1
    /\ received' = Record(m)
    /\ UNCHANGED orchVars
    /\ IF m.frame # "text" THEN Skip("non_text")
       ELSE IF ParsesAgentResponse(m) THEN OnAgentResponse(m)
       ELSE IF ParsesMessageReceived(m) THEN OnMessageReceived(m)
       ELSE IF ParsesAgentErrorResponse(m) THEN OnAgentErrorResponse(m)
       ELSE Skip("other")

ReceiveAny == \E m \in Msgs : Receive(m)

\* a receive failure treated like the end of the stream
ReceiveFails_AsDrain ==
    /\ pc = "recv"
    /\ Break("recv_failed", magi_state, completed_agents, final_result, passed)
    /\ UNCHANGED << nrecv, received >>
    /\ UNCHANGED orchVars

\* read.next() yields Some(Err(e)): msg.map_err(WebSocketError)?
ReceiveFails ==
    /\ pc = "recv"
    /\ pc' = "done"
    /\ outcome' = "WebSocketError"
    /\ branch' = "recv_failed"
    /\ UNCHANGED << nrecv, received >>
    /\ UNCHANGED loopVars
    /\ UNCHANGED orchVars

\* read.next() yields None: the loop drains, then the code after the loop
StreamEnds ==
    /\ pc = "recv"
    /\ Break("drained", magi_state, completed_agents, final_result, passed)
    /\ UNCHANGED << nrecv, received >>
    /\ UNCHANGED orchVars

Next ==
    \/ Connect
    \/ ConnectFails
    \/ SendRequest
    \/ SendFails
    \/ ReceiveAny
    \/ ReceiveFails
    \/ StreamEnds

Spec == Init /\ [][Next]_vars

(* ---------------------------- multi_turn_prompt ------------------------ *)

\* entries of the invocation history
ProviderCall(prompt, history, resp, ok) ==
    [who |-> "provider", prompt |-> prompt, history |-> history,
     resp |-> resp, passed |-> ok]

ReviewCall(item, ok) ==
    [who |-> "review", prompt |-> NoTurn, history |-> <<>>,
     resp |-> << item >>, passed |-> ok]

ProviderCalls == Cardinality({i \in 1..Len(calls) : calls[i].who = "provider"})

\* position of the first ToolCall item of resp.choice, 0 without one
FirstTool(resp) ==
    IF \E i \in 1..Len(resp) : resp[i].kind = "tool"
    THEN CHOOSE i \in 1..Len(resp) :
            /\ resp[i].kind = "tool"
            /\ \A j \in 1..(i - 1) : resp[j].kind # "tool"
    ELSE 0

\* the Text items the for loop handles before it reaches a ToolCall
LeadingTexts(resp) ==
    IF FirstTool(resp) = 0 THEN resp ELSE SubSeq(resp, 1, FirstTool(resp) - 1)

\* the turns pushed when the review passed with no final assistant turn
ApprovedTurns_NoFinalTurn(code) == << ToolResult(code, TRUE) >>

\* the turns pushed when the review passed: the tool result, then the final
\* assistant text carrying the code
ApprovedTurns(code) == << ToolResult(code, TRUE), AssistantText(code) >>

\* the test after the for loop, taken as always true
LoopExits_Always(approved, text) == TRUE

\* the test after the for loop with a cap of two rounds
LoopExits_AfterTwoRounds(approved, text) ==
    approved \/ text # NoText \/ Len(calls) >= 3

\* code_approved || final_text.is_some()
LoopExits(approved, text) == approved \/ text # NoText

\* final_text.unwrap_or_else(|| "Unable to get final code")
UnwrapOrDefault(text) ==
    IF text = NoText THEN "Unable to get final code" ELSE text

\* the locals of multi_turn_prompt are dropped when it returns
Return(r) ==
    /\ opc' = "returned"
    /\ result' = r
    /\ tool_call' = NoItem

\* main reads a line and calls multi_turn_prompt, which saves the prompt
StartRequest ==
    /\ opc = "idle"
    /\ nreq < MaxRequests
    /\ nreq' = nreq + 1
    /\ current_prompt' = UserText(Prompts[nreq + 1])
    /\ chat_history' = Append(chat_history, UserText(Prompts[nreq + 1]))
    /\ final_text' = NoText
    /\ code_approved' = FALSE
    /\ tool_call' = NoItem
    /\ result' = NoResult
    /\ calls' = <<>>
    /\ opc' = "generating"
    /\ UNCHANGED reviewVars

\* agent.completion(current_prompt, chat_history).send() returns resp; the
\* for loop over resp.choice runs up to its first ToolCall, whose
\* tools.call is then awaited
ProviderReturns(resp) ==
    /\ opc = "generating"
    /\ ProviderCalls < MaxTurns
    /\ calls' = Append(calls,
                  ProviderCall(current_prompt, chat_history, resp, "Ok"))
    /\ LET texts == LeadingTexts(resp)
           n     == Len(texts)
           hist  == chat_history \o
                      [i \in 1..n |-> AssistantText(texts[i].text)]
           last  == IF n = 0 THEN NoText ELSE texts[n].text
           k     == FirstTool(resp)
       IN  /\ final_text' = last
           /\ code_approved' = (n > 0)
           /\ IF k = 0
              THEN /\ chat_history' = hist
                   /\ IF LoopExits(n > 0, last)
                      THEN Return(OkResult(UnwrapOrDefault(last)))
                      ELSE opc' = "generating" /\ UNCHANGED << result, tool_call >>
              ELSE /\ chat_history' = Append(hist, AssistantToolCall(resp[k].text))
                   /\ tool_call' = resp[k]
                   /\ opc' = "reviewing"
                   /\ UNCHANGED result
    /\ UNCHANGED << current_prompt, nreq >>
    /\ UNCHANGED reviewVars

ProviderResponds == \E resp \in Responses : ProviderReturns(resp)

\* completion(..).await? or send().await? fails: the error is returned
ProviderFails ==
    /\ opc = "generating"
    /\ ProviderCalls < MaxTurns
    /\ calls' = Append(calls,
                  ProviderCall(current_prompt, chat_history, <<>>, "Err"))
    /\ Return(ErrResult("CompletionError"))
    /\ UNCHANGED << chat_history, current_prompt, final_text, code_approved,
                    nreq >>
    /\ UNCHANGED reviewVars

\* tools.call returns the serialised CodeReviewOutput {passed: p, code:
\* args.code, ..}
ReviewReturns(p) ==
    /\ opc = "reviewing"
    /\ calls' = Append(calls,
                  ReviewCall(tool_call, IF p THEN "true" ELSE "false"))
    /\ LET code == tool_call.text
       IN  IF p
           THEN /\ final_text' = code
                /\ code_approved' = TRUE
                /\ chat_history' = chat_history \o ApprovedTurns(code)
                /\ Return(OkResult(code))
                /\ UNCHANGED current_prompt
           ELSE /\ chat_history' = Append(chat_history, ToolResult(code, FALSE))
                /\ current_prompt' = ImprovePrompt
                /\ UNCHANGED << final_text, code_approved >>
                /\ IF LoopExits(code_approved, final_text)
                   THEN Return(OkResult(UnwrapOrDefault(final_text)))
                   ELSE /\ opc' = "generating"
                        /\ tool_call' = NoItem
                        /\ UNCHANGED result
    /\ UNCHANGED nreq
    /\ UNCHANGED reviewVars

ReviewResponds == \E p \in BOOLEAN : ReviewReturns(p)

\* tools.call fails and the loop goes on to another provider invocation
ReviewFails_Retry ==
    /\ opc = "reviewing"
    /\ calls' = Append(calls, ReviewCall(tool_call, "Err"))
    /\ opc' = "generating"
    /\ tool_call' = NoItem
    /\ UNCHANGED << chat_history, current_prompt, final_text, code_approved,
                    nreq, result >>
    /\ UNCHANGED reviewVars

\* tools.call(..).await? fails: the error is returned
ReviewFails ==
    /\ opc = "reviewing"
    /\ calls' = Append(calls, ReviewCall(tool_call, "Err"))
    /\ Return(ErrResult("ToolSetError"))
    /\ UNCHANGED << chat_history, current_prompt, final_text, code_approved,
                    nreq >>
    /\ UNCHANGED reviewVars

\* main's match on the result: Ok prints and clears the history, Err prints
MainHandlesResult ==
    /\ opc = "returned"
    /\ opc' = "idle"
    /\ chat_history' = IF result.kind = "Ok" THEN <<>> ELSE chat_history
    /\ current_prompt' = NoTurn
    /\ final_text' = NoText
    /\ code_approved' = FALSE
    /\ UNCHANGED << tool_call, result, calls, nreq >>
    /\ UNCHANGED reviewVars

OrchNext ==
    \/ StartRequest
    \/ ProviderResponds
    \/ ProviderFails
    \/ ReviewResponds
    \/ ReviewFails
    \/ MainHandlesResult

SpecOrch == Init /\ [][OrchNext]_vars

(* ======================================================================= *)
(* Claims                                                                   *)
(* ======================================================================= *)

PositiveCount(st) ==
    Cardinality({a \in AgentNames : st[a].decision = "POSITIVE"})

DecidedCount(st) ==
    Cardinality({a \in AgentNames : st[a].decision # None})

\* the last frame consumed for reviewer a under the session's request id
LastFrame(a) == received[a][Len(received[a])]

\* a completion message in one of the accepted shapes (terminal response or
\* streaming/completed envelope)
IsCompletion(m) ==
    /\ m.status = "completed"
    /\ \/ ParsesAgentResponse(m)
       \/ ParsesMessageReceived(m) /\ m.type = "agent_response"

\* an error envelope with exactly the fields {type, session_id, status,
\* request_id, agent_id, error, timestamp}
IsErrorEnvelope(m) ==
    /\ ParsesAgentErrorResponse(m)
    /\ m.content.kind = "absent"

(* ----------------------------------------------------------------------- *)
\* C1: for every assignment of the three decisions (unset, POSITIVE,
\* NEGATIVE) -- each of the 27 is the decisions of a reachable session state
\* -- get_final_decision is POSITIVE iff at least 2 are POSITIVE, NEGATIVE
\* iff all 3 are set and fewer than 2 are POSITIVE, and None in every other
\* case.
C1_FinalDecisionIsMajority ==
    LET v   == get_final_decision(magi_state)
        pos == PositiveCount(magi_state)
        set == DecidedCount(magi_state)
    IN  /\ (v = "POSITIVE") <=> (pos >= 2)
        /\ (v = "NEGATIVE") <=> (set = 3 /\ pos < 2)
        /\ (v = None) <=> (pos < 2 /\ set < 3)

\* a session resolved NEGATIVE by the verdict function with one POSITIVE vote
C1_Witness ==
    /\ branch \in {"a_quorum", "b_quorum"}
    /\ DecidedCount(magi_state) = 3
    /\ PositiveCount(magi_state) = 1
    /\ final_result = <<"NEGATIVE">>

(* ----------------------------------------------------------------------- *)
\* C2: whenever call returns Ok with passed = true, at least two of the
\* three reviewers of the returned session have decision POSITIVE.
C2_PassedImpliesMajority ==
    (outcome = "Ok" /\ passed) => PositiveCount(magi_state) >= 2

\* call returned passed = true with exactly two POSITIVE and one NEGATIVE
C2_Witness ==
    /\ outcome = "Ok" /\ passed
    /\ PositiveCount(magi_state) = 2
    /\ DecidedCount(magi_state) = 3

(* ----------------------------------------------------------------------- *)
\* C3 (as claimed): after exactly three completion messages for the
\* session's request id, one per reviewer, in any accepted shape, the verdict
\* is POSITIVE iff at least 2 of those messages carry content containing
\* "POSITIVE".
C3_VerdictFromCompletionContent ==
    ( /\ nrecv = 3
      /\ \A a \in AgentNames :
            Len(received[a]) = 1 /\ IsCompletion(received[a][1]) )
    => ( get_final_decision(magi_state) = "POSITIVE"
         <=> Cardinality({a \in AgentNames :
                 ContainsPositive(received[a][1].content.text)}) >= 2 )

(* ----------------------------------------------------------------------- *)
\* C4 (as claimed): once the last frame consumed for a known reviewer under
\* the session's request id is an error envelope, that reviewer's decision
\* is NEGATIVE and the reviewer is in the completed set.
C4_ErrorEnvelopeForcesNegative ==
    \A a \in AgentNames :
        (received[a] # <<>> /\ IsErrorEnvelope(LastFrame(a)))
        => /\ magi_state[a].decision = "NEGATIVE"
           /\ a \in completed_agents

(* ----------------------------------------------------------------------- *)
\* C5: a frame whose request_id differs from the session's leaves the three
\* reviewer states, the completed set, the reviews and the collected error
\* lines exactly as they were, at any point of the session.
C5_OtherRequestChangesNothing ==
    [][ \A m \in Msgs :
          (m.request_id # request_id /\ Receive(m))
          => UNCHANGED << magi_state, completed_agents, reviews,
                          error_messages >> ]_vars

\* a frame of another request was discarded in the middle of a session
C5_Witness ==
    /\ branch \in {"a_other_request", "b_other_request", "c_other_request"}
    /\ completed_agents # {}
    /\ \E a \in AgentNames : magi_state[a].content # <<>>

(* ----------------------------------------------------------------------- *)
\* C6 (as claimed): while fewer than 3 reviewers have a recorded decision,
\* get_final_decision is pending.
C6_PendingBelowThreeDecisions ==
    DecidedCount(magi_state) < 3 => get_final_decision(magi_state) = None

\* C6 (amended): while fewer than 3 reviewers have a recorded decision,
\* get_final_decision is never NEGATIVE, and it is pending unless two
\* reviewers already have decision POSITIVE, in which case it is POSITIVE.
C6_PendingUnlessTwoPositive ==
    DecidedCount(magi_state) < 3
    => /\ get_final_decision(magi_state) # "NEGATIVE"
       /\ get_final_decision(magi_state) = None
              <=> PositiveCount(magi_state) < 2

\* two decisions recorded, one POSITIVE: the verdict is pending
C6_Witness ==
    /\ pc = "recv"
    /\ DecidedCount(magi_state) = 2
    /\ PositiveCount(magi_state) = 1
    /\ get_final_decision(magi_state) = None

(* ----------------------------------------------------------------------- *)
\* C7 (as claimed): when two reviewers completed with decision POSITIVE and
\* the third sent an error envelope, call returns passed = false and a
\* reviews list of length >= 4 that ends with the three content dumps and
\* holds the error line of the third reviewer.
C7_TwoPositiveOneError ==
    \A c \in AgentNames :
        ( /\ outcome = "Ok"
          /\ \A a \in AgentNames \ {c} :
                /\ received[a] # <<>> /\ IsCompletion(LastFrame(a))
                /\ a \in completed_agents
                /\ magi_state[a].decision = "POSITIVE"
          /\ Len(received[c]) = 1 /\ IsErrorEnvelope(received[c][1]) )
        => /\ passed = FALSE
           /\ Len(reviews) >= 4
           /\ SubSeq(reviews, Len(reviews) - 2, Len(reviews))
                  = ContentDumps(magi_state)
           /\ \E i \in 1..Len(reviews) : reviews[i] = ErrorLine(c, ErrorText)

(* ----------------------------------------------------------------------- *)
\* C8 (as claimed): whenever call returns after all three reviewers have
\* completed, by completion or by error, passed is true iff the verdict
\* function on the returned session is POSITIVE.
C8_PassedIffVerdictAtQuorum ==
    (outcome = "Ok" /\ completed_agents = AgentNames)
    => (passed <=> get_final_decision(magi_state) = "POSITIVE")

(* ----------------------------------------------------------------------- *)
\* C9 (as claimed): when the stream ends before three reviewers have
\* completed, call returns a normal outcome whose passed is true iff the
\* session verdict is already POSITIVE.
C9_DrainReflectsPartialDecision ==
    (branch = "drained" /\ Cardinality(completed_agents) < 3)
    => /\ outcome = "Ok"
       /\ passed <=> get_final_decision(magi_state) = "POSITIVE"

(* ----------------------------------------------------------------------- *)
\* C10: a receive failure makes call return the WebSocketError outcome and
\* never a normal outcome, whatever reviewer state has been accumulated.
C10_ReceiveFailureIsWebSocketError ==
    branch = "recv_failed" => (pc = "done" /\ outcome = "WebSocketError")

\* the receive failed after a reviewer had already completed POSITIVE
C10_Witness ==
    /\ branch = "recv_failed"
    /\ outcome = "WebSocketError"
    /\ PositiveCount(magi_state) >= 1
    /\ completed_agents # {}

(* ----------------------------------------------------------------------- *)
\* a frame the AgentErrorResponse parser accepts, for a known reviewer and
\* the session's request id
IsReviewerError(m) ==
    /\ m.frame = "text"
    /\ ParsesAgentErrorResponse(m)
    /\ m.request_id = request_id
    /\ AgentName(m.agent_id) \in AgentNames

\* an error envelope has been consumed for reviewer c
ErroredBefore(c) ==
    \E i \in 1..Len(received[c]) : IsReviewerError(received[c][i])

\* a frame that carries text to accumulate: a terminal response or a
\* streaming envelope
CarriesText(m) ==
    \/ ParsesAgentResponse(m)
    \/ /\ ParsesMessageReceived(m) /\ m.type = "agent_response"
       /\ m.status = "streaming"

\* C11: an error envelope for one reviewer does not end the session while
\* fewer than three reviewers have completed, and after it every frame of
\* another reviewer under the session's request id is still recorded in
\* that reviewer's state and a completion frame still completes it.  The
\* frame of a step is the one the step appends to the reviewer's history.
C11_ErrorDoesNotEndSession ==
    [][ \A a \in AgentNames :
          received'[a] # received[a] =>
            LET m == received'[a][Len(received'[a])]
            IN  /\ (IsReviewerError(m) /\ Cardinality(completed_agents') < 3)
                   => (pc' = "recv" /\ outcome' = "none")
                /\ (\E c \in AgentNames \ {a} : ErroredBefore(c))
                   => /\ CarriesText(m) =>
                           /\ magi_state'[a].content
                                = magi_state[a].content \o m.content.text
                           /\ magi_state'[a].messages
                                = Append(magi_state[a].messages, m.content.text)
                      /\ IsCompletion(m) =>
                           /\ a \in completed_agents'
                           /\ magi_state'[a].decision \in MAGIDecision ]_vars

\* a reviewer errored (recorded NEGATIVE), the session went on and another
\* reviewer then completed
C11_Witness ==
    /\ pc = "recv"
    /\ nrecv = 2
    /\ branch \in {"a_completed", "b_completed"}
    /\ \E c \in AgentNames :
          /\ ErroredBefore(c)
          /\ magi_state[c].decision = "NEGATIVE"
          /\ \E a \in AgentNames \ {c} :
                /\ a \in completed_agents
                /\ magi_state[a].decision = "POSITIVE"

(* ----------------------------------------------------------------------- *)
\* a provider invocation that returned exactly one item, a tool call
SingleToolCall(c) ==
    /\ c.who = "provider" /\ c.passed = "Ok"
    /\ Len(c.resp) = 1 /\ c.resp[1].kind = "tool"

\* a review invocation that returned an outcome with passed = p
Reviewed(c, p) == c.who = "review" /\ c.passed = p

\* C12: when the provider returned a single tool call and its review passed,
\* multi_turn_prompt returns Ok with the code submitted for review, and the
\* history is the one the provider was given followed by the tool-call turn,
\* the tool-result turn and exactly one final assistant text turn.
C12_ApprovedCodeReturned ==
    LET n == Len(calls)
    IN  ( /\ opc = "returned" /\ n >= 2
          /\ SingleToolCall(calls[n - 1]) /\ Reviewed(calls[n], "true") )
        => LET code == calls[n - 1].resp[1].text
           IN  /\ result = OkResult(code)
               /\ calls[n].resp = << ToolItem(code) >>
               /\ chat_history = calls[n - 1].history \o
                     << AssistantToolCall(code), ToolResult(code, TRUE),
                        AssistantText(code) >>

\* the first provider response is a single tool call and its review passed
C12_Witness ==
    /\ opc = "returned"
    /\ Len(calls) = 2
    /\ SingleToolCall(calls[1]) /\ Reviewed(calls[2], "true")
    /\ result.kind = "Ok"
    /\ Len(chat_history) = 4

(* ----------------------------------------------------------------------- *)
\* the request's first provider response was a single tool call and its
\* review outcome was passed = false
RejectedFirst ==
    /\ Len(calls) >= 2
    /\ SingleToolCall(calls[1]) /\ Reviewed(calls[2], "false")

\* ... and the second provider response was a single tool call whose review
\* outcome was passed = true
RejectedThenPassed ==
    /\ RejectedFirst
    /\ Len(calls) >= 4
    /\ SingleToolCall(calls[3]) /\ Reviewed(calls[4], "true")

\* C13: after a rejected single tool call multi_turn_prompt does not return
\* but invokes the provider again; when that second response is a single
\* tool call whose review passes, it returns then: exactly 2 provider and 2
\* review invocations, provider, review, provider, review.
C13_RejectedThenPassedIsTwoRounds ==
    /\ Len(calls) >= 1 => calls[1].who = "provider"
    /\ RejectedFirst =>
          /\ Len(calls) = 2 => (opc = "generating" /\ result = NoResult)
          /\ Len(calls) >= 3 => calls[3].who = "provider"
          /\ (Len(calls) = 3 /\ SingleToolCall(calls[3]))
                => (opc = "reviewing" /\ result = NoResult)
    /\ RejectedThenPassed =>
          /\ Len(calls) = 4
          /\ [i \in 1..4 |-> calls[i].who]
                = << "provider", "review", "provider", "review" >>
          /\ opc \in {"returned", "idle"}
          /\ result = OkResult(calls[3].resp[1].text)

\* rejected, then passed, and returned
C13_Witness ==
    /\ RejectedThenPassed
    /\ opc = "returned"
    /\ result.kind = "Ok"

(* ----------------------------------------------------------------------- *)
RECURSIVE RejectedRounds(_, _)
\* the turns of the rejected rounds logged in calls[1..n]: per round the
\* assistant tool call, the tool result and, when withPrompt, the rejection
\* prompt
RejectedRounds(n, withPrompt) ==
    IF n < 2 THEN << >>
    ELSE LET code == calls[n].resp[1].text
         IN  RejectedRounds(n - 2, withPrompt) \o
                << AssistantToolCall(code), ToolResult(code, FALSE) >> \o
                (IF withPrompt THEN << ImprovePrompt >> ELSE << >>)

\* C14: on every provider invocation the history passed to the provider is
\* the history of the first invocation followed, in order, by the assistant
\* tool call, the tool result and the rejection prompt of each rejected
\* round so far.
C14_HistoryHoldsRejectionPrompts ==
    \A i \in 1..Len(calls) :
        calls[i].who = "provider"
            => calls[i].history
                  = calls[1].history \o RejectedRounds(i - 1, TRUE)

\* what the code keeps: the tool calls and tool results, no rejection prompt
C14_HistoryHoldsToolTurns ==
    \A i \in 1..Len(calls) :
        calls[i].who = "provider"
            => /\ calls[i].history
                    = calls[1].history \o RejectedRounds(i - 1, FALSE)
               /\ i > 1 => calls[i].prompt = ImprovePrompt

(* ----------------------------------------------------------------------- *)
\* C15: the history is scoped to one top-level request: once main has
\* handled the result of a request (Ok or Err) the history is empty, and
\* while a request is in progress the history begins with that request's
\* own prompt, so no turn of an earlier request is in it.
C15_HistoryScopedToRequest ==
    /\ opc = "idle" => chat_history = << >>
    /\ opc # "idle" =>
          /\ chat_history # << >>
          /\ chat_history[1] = UserText(Prompts[nreq])

\* what the code does: after an Ok result the history is empty
C15_HistoryClearedAfterOk ==
    (opc = "idle" /\ result.kind = "Ok") => chat_history = << >>

(* ----------------------------------------------------------------------- *)
\* the texts of the Text items of a provider response
TextsOf(resp) == {resp[i].text : i \in {j \in 1..Len(resp) : resp[j].kind = "text"}}

\* multi_turn_prompt returned the code of a review outcome with passed = true
ReturnedApprovedCode ==
    LET n == Len(calls)
    IN  /\ result.kind = "Ok"
        /\ n >= 2 /\ Reviewed(calls[n], "true")
        /\ result.text = calls[n].resp[1].text

\* multi_turn_prompt returned a text the provider produced in its last
\* response
ReturnedProviderText ==
    LET n == Len(calls)
    IN  /\ result.kind = "Ok"
        /\ n >= 1
        /\ \/ calls[n].who = "provider" /\ result.text \in TextsOf(calls[n].resp)
           \/ /\ n >= 2 /\ Reviewed(calls[n], "false")
              /\ result.text \in TextsOf(calls[n - 1].resp)

\* multi_turn_prompt returned the error of its last invocation
ReturnedError ==
    LET n == Len(calls)
    IN  /\ result.kind = "Err"
        /\ n >= 1 /\ calls[n].passed = "Err"
        /\ result.text = IF calls[n].who = "provider"
                         THEN "CompletionError" ELSE "ToolSetError"

\* C16: what multi_turn_prompt returns is the code of a passed review, a
\* text of the provider, or the error of the provider or review invocation
\* that failed; a failed invocation is the last one of the request (no
\* retry), and nothing is invoked once it has returned.
C16_ThreeExits ==
    /\ opc = "returned" =>
          \/ ReturnedApprovedCode
          \/ ReturnedProviderText
          \/ ReturnedError
    /\ \A i \in 1..Len(calls) : calls[i].passed = "Err" => i = Len(calls)
    /\ (Len(calls) >= 1 /\ calls[Len(calls)].passed = "Err")
          => opc \in {"returned", "idle"}

\* a second request, rejected once, ended by the error of its second
\* provider invocation; the other two exits are reached as well
C16_Witness ==
    /\ opc = "returned"
    /\ nreq = 2
    /\ ReturnedError
    /\ Len(calls) = 3

C16_WitnessText ==
    opc = "returned" /\ ReturnedProviderText /\ ~ReturnedApprovedCode

C16_WitnessCode ==
    opc = "returned" /\ ReturnedApprovedCode /\ ~ReturnedProviderText

(* ----------------------------------------------------------------------- *)
\* C17: once a reviewer's decision is set, no later frame changes that
\* reviewer's decision, content or messages.
C17_StateFrozenOnceDecided ==
    [][ \A a \in AgentNames :
          magi_state[a].decision # None => magi_state'[a] = magi_state[a] ]_vars

(* ----------------------------------------------------------------------- *)
\* a text frame under the session's request id whose agent_id is none of
\* the three reviewer ids
IsUnknownAgentFrame(m) ==
    /\ m.frame = "text"
    /\ m.request_id = request_id
    /\ m.agent_id \notin KnownIds

\* C18: a frame for the session's request id with an unknown agent_id
\* changes no reviewer state and not the completed set, and adds no line to
\* the reviews or to the error lines that end up in the reviews.
C18_UnknownAgentIgnored ==
    [][ \A m \in Msgs :
          (Receive(m) /\ IsUnknownAgentFrame(m))
            => UNCHANGED << magi_state, completed_agents, reviews,
                            error_messages >> ]_vars

(* ----------------------------------------------------------------------- *)
\* the part of the loop state that decides the outcome: the reviewer
\* states, the completed set, whether call has returned, and passed
LoopF(st, done, fin, ok) == [st |-> st, done |-> done, fin |-> fin, ok |-> ok]

\* the quorum test of the AgentResponse and MessageReceived branches on the
\* loop state (st, done), keeping passed = ok below the quorum
QuorumF(st, done, ok) ==
    LET decision == get_final_decision(st)
        resolved == Cardinality(done) >= 3 /\ decision # None
    IN  LoopF(st, done, resolved,
              IF resolved THEN decision = "POSITIVE" ELSE ok)

\* one iteration of the receive loop as a function of the loop state: the
\* effect of Receive(m) on magi_state, completed_agents, passed and on
\* whether call returns
StepF(s, m) ==
    IF s.fin \/ m.frame # "text" THEN s
    ELSE
    LET a == AgentName(m.agent_id)
    IN  IF ParsesAgentResponse(m)
        THEN IF ~SameRequest(m.request_id) \/ a \notin AgentNames THEN s
             ELSE
             LET st1 == [s.st EXCEPT
                           ![a].messages = Append(@, m.content.text),
                           ![a].content = @ \o m.content.text]
             IN  IF m.status # "completed"
                 THEN LoopF(st1, s.done, FALSE, s.ok)
                 ELSE QuorumF([st1 EXCEPT ![a].decision =
                                    ExtractDecision(m.content.text)],
                              s.done \cup {a}, s.ok)
        ELSE IF ParsesMessageReceived(m)
        THEN IF \/ m.type # "agent_response"
                \/ ~SameRequest(m.request_id)
                \/ a \notin AgentNames
             THEN s
             ELSE IF m.status = "streaming"
             THEN LoopF([s.st EXCEPT
                           ![a].content = @ \o m.content.text,
                           ![a].messages = Append(@, m.content.text)],
                        s.done, FALSE, s.ok)
             ELSE IF m.status = "completed"
             THEN QuorumF([s.st EXCEPT ![a].decision =
                                ExtractDecision(s.st[a].content)],
                          s.done \cup {a}, s.ok)
             ELSE s
        ELSE IF ParsesAgentErrorResponse(m)
        THEN IF ~SameRequest(m.request_id) \/ a \notin AgentNames THEN s
             ELSE
             LET st1 == [s.st EXCEPT
                           ![a].messages =
                               Append(@, ErrorContent(m.error.text)),
                           ![a].decision = "NEGATIVE"]
                 done == s.done \cup {a}
             IN  LoopF(st1, done, Cardinality(done) >= 3,
                       IF Cardinality(done) >= 3 THEN FALSE ELSE s.ok)
        ELSE s

RECURSIVE RunF(_, _)
\* call's receive loop on the frames of seq in order; when the frames run
\* out before call returned, the stream ends and passed is left as it is
RunF(s, seq) ==
    IF seq = << >> THEN s ELSE RunF(StepF(s, Head(seq)), Tail(seq))

\* the loop state at the start of the receive loop
StartF == LoopF(DefaultState, {}, FALSE, FALSE)

\* StepF is what Receive does to the loop state
StepF_AgreesWithReceive ==
    [][ \A m \in Msgs :
          Receive(m) =>
            LET r == StepF(LoopF(magi_state, completed_agents, FALSE, passed), m)
            IN  /\ magi_state' = r.st
                /\ completed_agents' = r.done
                /\ passed' = r.ok
                /\ (pc' = "done") = r.fin ]_vars

\* the per-reviewer sequences consumed so far, reviewer after reviewer
OneAfterTheOther ==
    received["melchior"] \o received["balthasar"] \o received["casper"]

\* C19: when call has returned an outcome, its passed value and the three
\* decisions are those of any other interleaving of the same per-reviewer
\* frame sequences, in particular of the one that delivers melchior's
\* frames, then balthasar's, then casper's.
C19_OutcomeIndependentOfInterleaving ==
    (pc = "done" /\ outcome = "Ok") =>
        LET r == RunF(StartF, OneAfterTheOther)
        IN  /\ passed = r.ok
            /\ \A a \in AgentNames :
                  magi_state[a].decision = r.st[a].decision

(* ----------------------------------------------------------------------- *)
\* C20: the frame that brings the completed set to three reviewers makes
\* call return Ok; the loop is never at its receive position with three
\* reviewers completed, so no frame is processed after that one; and a
\* frame makes call return only when it completes the third reviewer.  The
\* steps that process a frame are those that count it in nrecv.
C20_LoopStopsAtThirdCompletion ==
    [][ /\ nrecv' = nrecv + 1 =>
               /\ Cardinality(completed_agents') >= 3
                     => (pc' = "done" /\ outcome' = "Ok")
               /\ pc' = "done"
                     => /\ Cardinality(completed_agents') = 3
                        /\ Cardinality(completed_agents) = 2
        /\ pc' = "recv" => Cardinality(completed_agents') < 3
        /\ Cardinality(completed_agents) >= 3
              => (nrecv' = nrecv /\ received' = received) ]_vars

\* call returned on the frame that completed the third reviewer
C20_Witness ==
    /\ pc = "done" /\ outcome = "Ok"
    /\ branch \in {"a_quorum", "b_quorum", "c_quorum"}
    /\ Cardinality(completed_agents) = 3
    /\ \A a \in AgentNames : Len(received[a]) = 1

(* ----------------------------------------------------------------------- *)
\* a frame that carries message text for its reviewer: a terminal response,
\* a streaming envelope or a completed envelope, with a content string
HasMessageText(m) ==
    /\ m.content.kind = "str"
    /\ CarriesText(m) \/ IsCompletion(m)

RECURSIVE TextsIn(_, _)
\* the content texts, in order, of the frames of seq that satisfy the test
\* (withCompleted: completed envelopes count as well as appended frames)
TextsIn(seq, withCompleted) ==
    IF seq = << >> THEN << >>
    ELSE LET m == Head(seq)
         IN  (IF (IF withCompleted THEN HasMessageText(m) ELSE CarriesText(m))
              THEN << m.content.text >> ELSE << >>)
             \o TextsIn(Tail(seq), withCompleted)

RECURSIVE Concat(_)
\* the concatenation of a sequence of texts
Concat(ts) == IF ts = << >> THEN << >> ELSE Head(ts) \o Concat(Tail(ts))

\* a messages entry pushed by the AgentErrorResponse branch
IsErrorEntry(x) == Len(x) >= 1 /\ x[1] = "ERROR: "

\* the messages entries that are not error entries
TextEntries(a) == SelectSeq(magi_state[a].messages, LAMBDA x : ~IsErrorEntry(x))

\* C21: each reviewer's content is the concatenation, in arrival order, of
\* the text of every message received for it under the session's request
\* id, streaming fragments and completion messages alike, and its messages
\* list holds those texts in the same order.
C21_ContentIsAllMessageText ==
    \A a \in AgentNames :
        /\ magi_state[a].content = Concat(TextsIn(received[a], TRUE))
        /\ TextEntries(a) = TextsIn(received[a], TRUE)

\* what the code keeps: the text of terminal responses and of streaming
\* envelopes
C21_ContentIsAppendedText ==
    \A a \in AgentNames :
        /\ magi_state[a].content = Concat(TextsIn(received[a], FALSE))
        /\ TextEntries(a) = TextsIn(received[a], FALSE)

(* ----------------------------------------------------------------------- *)
\* C22: a completed terminal response sets the reviewer's decision to
\* POSITIVE iff that message's own content contains "POSITIVE", whatever was
\* accumulated before; a completed envelope sets it to POSITIVE iff the
\* content accumulated from the earlier fragments contains "POSITIVE".
C22_DecisionTextDependsOnShape ==
    [][ \A a \in AgentNames :
          (received'[a] # received[a] /\ IsCompletion(LastFrame(a)'))
            => LET m == LastFrame(a)'
               IN  IF ParsesAgentResponse(m)
                   THEN (magi_state'[a].decision = "POSITIVE")
                            <=> ContainsPositive(m.content.text)
                   ELSE /\ (magi_state'[a].decision = "POSITIVE")
                              <=> ContainsPositive(magi_state[a].content)
                        /\ magi_state'[a].content = magi_state[a].content ]_vars

\* a fragment "POSI" then a completed terminal response "TIVE": the
\* accumulated content contains POSITIVE, the decision is NEGATIVE
C22_Witness ==
    \E a \in AgentNames :
        /\ Len(received[a]) = 2
        /\ IsCompletion(LastFrame(a)) /\ ParsesAgentResponse(LastFrame(a))
        /\ ContainsPositive(magi_state[a].content)
        /\ ~ContainsPositive(LastFrame(a).content.text)
        /\ magi_state[a].decision = "NEGATIVE"

\* a fragment POSITIVE then a completed envelope: the decision is POSITIVE
C22_WitnessEnvelope ==
    \E a \in AgentNames :
        /\ Len(received[a]) = 2
        /\ IsCompletion(LastFrame(a)) /\ ParsesMessageReceived(LastFrame(a))
        /\ ContainsPositive(magi_state[a].content)
        /\ magi_state[a].decision = "POSITIVE"

(* ----------------------------------------------------------------------- *)
\* a frame that completes its reviewer: a completion message, or an error
\* frame that reaches the AgentErrorResponse branch
Completes(m) ==
    \/ IsCompletion(m)
    \/ /\ ParsesAgentErrorResponse(m)
       /\ ~ParsesAgentResponse(m) /\ ~ParsesMessageReceived(m)

\* the completing frames consumed for reviewer a
Completions(a) == {i \in 1..Len(received[a]) : Completes(received[a][i])}

\* C23: the completed set is the set of reviewers for which at least one
\* completing frame was consumed, however many were consumed for each, so
\* its size is the number of distinct completed reviewers; call returns on
\* the three-completion condition only when each of the three reviewers has
\* a completing frame.
C23_CompletionCountedOncePerReviewer ==
    /\ completed_agents = {a \in AgentNames : Completions(a) # {}}
    /\ (pc = "done" /\ branch \in {"a_quorum", "b_quorum", "c_quorum"})
          => \A a \in AgentNames : Completions(a) # {}

\* three completing frames were consumed, two of them for the same
\* reviewer: two reviewers are completed and the loop goes on
C23_Witness ==
    /\ pc = "recv"
    /\ nrecv = 3
    /\ Cardinality(completed_agents) = 2
    /\ \E a \in AgentNames : Cardinality(Completions(a)) = 2
    /\ \E a \in AgentNames : Cardinality(Completions(a)) = 1

(* ----------------------------------------------------------------------- *)
\* every provider response of the request so far was a single tool call and
\* every review outcome so far was passed = false
AllRejected ==
    /\ Len(calls) >= 1
    /\ \A i \in 1..Len(calls) :
          IF i % 2 = 1 THEN SingleToolCall(calls[i])
                       ELSE Reviewed(calls[i], "false")

\* C24: while every provider response is a tool call and every review
\* outcome is passed = false, multi_turn_prompt has not returned, whatever
\* the number of rounds: after a rejection it is about to invoke the
\* provider again, after a tool call it is awaiting the review.
C24_NoIterationBound ==
    AllRejected =>
        /\ result = NoResult
        /\ opc = IF Len(calls) % 2 = 0 THEN "generating" ELSE "reviewing"
        /\ nreq >= 1

\* as many rejected rounds as the model allows, and still not returned
C24_Witness ==
    /\ AllRejected
    /\ Len(calls) = 2 * MaxTurns
    /\ opc = "generating"

(* ----------------------------------------------------------------------- *)
\* a completion message has been delivered for reviewer a
CompletionDelivered(a) ==
    \E i \in 1..Len(received[a]) : IsCompletion(received[a][i])

\* C25: once a completion message has been delivered for each of the three
\* reviewers (no transport error having ended the session before), call has
\* returned Ok with result POSITIVE or NEGATIVE: it returns at the delivery
\* of the third one.  And while the stream is open call returns Ok only
\* when every reviewer has completed: with a reviewer that never completes
\* it does not return.
C25_ReturnsOnceAllCompleted ==
    /\ (\A a \in AgentNames : CompletionDelivered(a))
          => /\ pc = "done" /\ outcome = "Ok"
             /\ final_result \in {POSITIVE_TEXT, <<"NEGATIVE">>}
    /\ (pc = "done" /\ outcome = "Ok" /\ branch # "drained")
          => \A a \in AgentNames : Completions(a) # {}

\* three completion messages, one per reviewer, with split decisions: call
\* has returned NEGATIVE
C25_Witness ==
    /\ \A a \in AgentNames : CompletionDelivered(a)
    /\ pc = "done" /\ outcome = "Ok"
    /\ final_result = <<"NEGATIVE">>
    /\ PositiveCount(magi_state) = 1

(* ----------------------------------------------------------------------- *)
\* the reviews list holds the three accumulated-content entries, Melchior,
\* Balthasar, Casper
HasContentDumps ==
    \E i \in 1..(Len(reviews) - 2) :
        SubSeq(reviews, i, i + 2) = ContentDumps(magi_state)

\* C26: every Ok outcome of call has a reviews list that contains the three
\* accumulated-content entries, whichever branch ended the loop.
C26_ReviewsHoldContentDumps ==
    (pc = "done" /\ outcome = "Ok") => HasContentDumps

\* what the code does: the entries are there unless a terminal response
\* ended the loop
C26_DumpsUnlessTerminalQuorum ==
    (pc = "done" /\ outcome = "Ok") => (HasContentDumps <=> branch # "a_quorum")

(* ----------------------------------------------------------------------- *)
\* C27: when the last review outcome of the request is passed = false,
\* multi_turn_prompt has not returned and is about to invoke the provider
\* again, also when the provider response held a text item before the tool
\* call.
C27_RejectionNeverReturns ==
    (Len(calls) >= 2 /\ Reviewed(calls[Len(calls)], "false"))
        => (opc = "generating" /\ result = NoResult)

\* what the code does: after a rejection it returns exactly when the
\* response held a text item before the tool call, and returns that text
C27_RejectionReturnsLeadingText ==
    LET n == Len(calls)
    IN  (n >= 2 /\ Reviewed(calls[n], "false"))
          => IF TextsOf(calls[n - 1].resp) = {}
             THEN opc = "generating" /\ result = NoResult
             ELSE /\ opc \in {"returned", "idle"}
                  /\ result.kind = "Ok"
                  /\ result.text \in TextsOf(calls[n - 1].resp)

====
